---- MODULE Spec2Model ----
(***************************************************************************)
(* Model of the classification-and-evaluation pipeline of glav/HackShare:  *)
(* QueryStats (src/src/stats.py), the orchestrator main (src/src/app.py),  *)
(* the classification call (src/src/azure_openai.py), the catalog reader   *)
(* (src/src/data/catalog_data_reader.py) and the loaders of                *)
(* src/src/data/prompts.py.                                                *)
(***************************************************************************)
EXTENDS Integers, Sequences, FiniteSets, TLC

(***************************************************************************)
(* Bounds of the model.                                                    *)
(***************************************************************************)
\* longest support-query dataset (rows)
MaxQueries == 3
\* largest total_queries a direct client of QueryStats passes to __init__
MaxTotal == 3
\* a direct client of QueryStats makes up to MaxTotal + ExtraCalls increments
ExtraCalls == 2
\* longest catalog dataset (rows)
MaxCatalogRows == 2

(***************************************************************************)
(* Python floats: IEEE-754 binary64, round to nearest, ties to even.       *)
(* A non-negative finite double is [m, e] with value m * 2^e, where m is   *)
(* the 53-bit significand as a sequence of bits, most significant first    *)
(* (m[1] = 1 unless the value is zero).  The percentages of QueryStats     *)
(* stay far from the subnormal and overflow ranges, so the exponent is     *)
(* unbounded here.                                                         *)
(***************************************************************************)
MantBits == 53

Zeros(n) == [i \in 1..n |-> 0]

FZero == [m |-> Zeros(MantBits), e |-> 0]

\* the outcome of a float division by zero
ZeroDivisionError == [m |-> <<>>, e |-> 0]

\* b without its leading zero bits
StripLeading(b) ==
    IF \A i \in 1..Len(b) : b[i] = 0 THEN <<>>
    ELSE LET k == CHOOSE i \in 1..Len(b) :
                      b[i] = 1 /\ \A j \in 1..(i - 1) : b[j] = 0
         IN  SubSeq(b, k, Len(b))

\* b + 1 on a bit sequence; the result is one bit longer when every bit
\* of b is 1
IncBits(b) ==
    IF \A i \in 1..Len(b) : b[i] = 1 THEN <<1>> \o Zeros(Len(b))
    ELSE LET k == CHOOSE i \in 1..Len(b) :
                      b[i] = 0 /\ \A j \in (i + 1)..Len(b) : b[j] = 1
         IN  [i \in 1..Len(b) |-> IF i < k THEN b[i] ELSE IF i = k THEN 1 ELSE 0]

\* a + b on bit sequences of equal length n; the result has n + 1 bits.
\* The carry into position i comes from the nearest lower position that
\* generates one, through positions that propagate it.
AddBits(a, b) ==
    LET n == Len(a)
        CarryInto(i) ==
            \E j \in (i + 1)..n :
                /\ a[j] + b[j] = 2
                /\ \A k \in (i + 1)..(j - 1) : a[k] + b[k] = 1
        C(i) == IF CarryInto(i) THEN 1 ELSE 0
    IN  [i \in 1..(n + 1) |->
            IF i = 1 THEN C(0) ELSE (a[i - 1] + b[i - 1] + C(i - 1)) % 2]

\* a + b on bit sequences of any lengths
AddPadded(a, b) ==
    LET n == IF Len(a) > Len(b) THEN Len(a) ELSE Len(b)
    IN  AddBits(Zeros(n - Len(a)) \o a, Zeros(n - Len(b)) \o b)

\* b * 100 on a bit sequence: 100 = 64 + 32 + 4
Mul100(b) ==
    AddPadded(AddPadded(b \o Zeros(6), b \o Zeros(5)), b \o Zeros(2))

\* the bits of a natural number
RECURSIVE NatBits(_)
NatBits(n) == IF n = 0 THEN <<>> ELSE NatBits(n \div 2) \o <<n % 2>>

\* the double nearest to bits * 2^e (ties to even)
RoundNorm(bits, e) ==
    LET b == StripLeading(bits)
        L == Len(b)
    IN  IF L = 0 THEN FZero
        ELSE IF L <= MantBits
        THEN [m |-> b \o Zeros(MantBits - L), e |-> e - (MantBits - L)]
        ELSE LET keep   == SubSeq(b, 1, MantBits)
                 guard  == b[MantBits + 1]
                 sticky == \E j \in (MantBits + 2)..L : b[j] = 1
                 up     == guard = 1 /\ (sticky \/ keep[MantBits] = 1)
                 r      == IF up THEN IncBits(keep) ELSE keep
             IN  IF Len(r) > MantBits
                 THEN [m |-> SubSeq(r, 1, MantBits), e |-> e + (L - MantBits) + 1]
                 ELSE [m |-> r, e |-> e + (L - MantBits)]

\* scale p / q into [1, 2): the result <<p', q', e>> has q' <= p' < 2q'
\* and p / q = (p' / q') * 2^e
RECURSIVE NormDiv(_, _, _)
NormDiv(p, q, e) ==
    IF p < q THEN NormDiv(2 * p, q, e - 1)
    ELSE IF p >= 2 * q THEN NormDiv(p, 2 * q, e + 1)
    ELSE <<p, q, e>>

\* 2^n modulo q, by repeated squaring
RECURSIVE Pow2Mod(_, _)
Pow2Mod(n, q) ==
    IF n = 0 THEN 1 % q
    ELSE IF n % 2 = 0
    THEN LET h == Pow2Mod(n \div 2, q) IN (h * h) % q
    ELSE (2 * Pow2Mod(n - 1, q)) % q

\* the first n bits of the binary expansion of p / q (q <= p < 2q), then
\* one sticky bit that is 1 iff the rest of the expansion is not zero
QuotBits(p, q, n) ==
    LET Rem(i) == ((p % q) * Pow2Mod(i, q)) % q
    IN  [i \in 1..(n + 1) |->
            IF i = 1 THEN 1
            ELSE IF i <= n THEN (2 * Rem(i - 2)) \div q
            ELSE IF Rem(n - 1) = 0 THEN 0 ELSE 1]

\* Python's int / int (true division) for small naturals
FDiv(p, q) ==
    IF q = 0 THEN ZeroDivisionError
    ELSE IF p = 0 THEN FZero
    ELSE LET n == NormDiv(p, q, 0)
         IN  RoundNorm(QuotBits(n[1], n[2], MantBits + 2),
                       n[3] - (MantBits + 2))

\* Python's float * 100
FMul100(x) ==
    IF x = ZeroDivisionError THEN ZeroDivisionError
    ELSE IF x = FZero THEN FZero
    ELSE RoundNorm(Mul100(x.m), x.e)

\* Python's float + float
FAdd(x, y) ==
    IF x = ZeroDivisionError \/ y = ZeroDivisionError THEN ZeroDivisionError
    ELSE IF x = FZero THEN y
    ELSE IF y = FZero THEN x
    ELSE LET lo == IF x.e < y.e THEN x.e ELSE y.e
         IN  RoundNorm(AddPadded(x.m \o Zeros(x.e - lo), y.m \o Zeros(y.e - lo)), lo)

\* the double of a small natural
FInt(n) == RoundNorm(NatBits(n), 0)


(***************************************************************************)
(* QueryStats (stats.py).  An object is the record of its three fields.    *)
(***************************************************************************)
QueryStats(total) ==
    [total_queries |-> total, pass_count |-> 0, fail_count |-> 0]

increment_pass(self) == [self EXCEPT !.pass_count = @ + 1]

\* increment_fail with the statement of increment_pass left in it
increment_fail_and_pass(self) ==
    [self EXCEPT !.fail_count = @ + 1, !.pass_count = @ + 1]

increment_fail(self) == [self EXCEPT !.fail_count = @ + 1]

\* get_pass_percentage without the guard of line 33
get_pass_percentage_unguarded(self) ==
    FMul100(FDiv(self.pass_count, self.total_queries))

get_pass_percentage(self) ==
    IF self.total_queries = 0 THEN FZero
    ELSE FMul100(FDiv(self.pass_count, self.total_queries))

get_fail_percentage(self) ==
    IF self.total_queries = 0 THEN FZero
    ELSE FMul100(FDiv(self.fail_count, self.total_queries))

get_processed_count(self) == self.pass_count + self.fail_count

\* get_remaining_count without the max of line 64
get_remaining_count_unclamped(self) ==
    self.total_queries - get_processed_count(self)

get_remaining_count(self) ==
    LET d == self.total_queries - get_processed_count(self)
    IN  IF d > 0 THEN d ELSE 0

get_stats_summary(self) ==
    LET processed == get_processed_count(self)
    IN  [total_queries         |-> self.total_queries,
         processed_queries     |-> processed,
         remaining_queries     |-> get_remaining_count(self),
         pass_count            |-> self.pass_count,
         fail_count            |-> self.fail_count,
         pass_percentage       |-> get_pass_percentage(self),
         fail_percentage       |-> get_fail_percentage(self),
         completion_percentage |->
             IF self.total_queries > 0
             THEN FMul100(FDiv(processed, self.total_queries))
             ELSE FZero]

\* __str__ (lines 92-98): the values the text shows, in the order of its
\* lines, before they are formatted
__str__(self) ==
    LET stats == get_stats_summary(self)
    IN  <<stats.total_queries,
          stats.processed_queries, stats.completion_percentage,
          stats.remaining_queries,
          stats.pass_count, stats.pass_percentage,
          stats.fail_count, stats.fail_percentage>>

\* the read operations of QueryStats (lines 26-98): none assigns to a field
ReadOperations ==
    {"get_pass_percentage", "get_fail_percentage", "get_processed_count",
     "get_remaining_count", "get_stats_summary", "__str__"}

\* what the read operation op returns on self
Read(op, self) ==
    CASE op = "get_pass_percentage" -> get_pass_percentage(self)
      [] op = "get_fail_percentage" -> get_fail_percentage(self)
      [] op = "get_processed_count" -> get_processed_count(self)
      [] op = "get_remaining_count" -> get_remaining_count(self)
      [] op = "get_stats_summary"   -> get_stats_summary(self)
      [] op = "__str__"             -> __str__(self)

(***************************************************************************)
(* ResultsStore (results_store.py, imported by app.py).                    *)
(***************************************************************************)
\* ResultEvaluator: exact string equality
evaluate(expected, predicted) == predicted = expected

\* add_result returns the store after the append and the verdict
add_result(store, query_id, input_text, expected, predicted) ==
    LET correct == evaluate(expected, predicted)
    IN  [store |-> Append(store, [query_id           |-> query_id,
                                  input_text         |-> input_text,
                                  expected_category  |-> expected,
                                  predicted_category |-> predicted,
                                  correct            |-> correct]),
         ret   |-> correct]

(***************************************************************************)
(* The classification call (azure_openai.py).                              *)
(***************************************************************************)
\* what the model can answer when the call succeeds
ModelAnswers ==
    {"SAP-SAP new user", "SAP-SAP new User", "SAP-SAP new user ", "Unknown"}

\* str(e) of what the client library can raise inside the try block
ServiceErrors == {"Connection error."}

\* what happens inside the try block of one call: the service answers, or
\* something raises
ServiceBehaviours ==
    [kind : {"content"}, text : ModelAnswers] \cup
    [kind : {"exception"}, text : ServiceErrors]

\* without the required environment variables the request cannot succeed
PossibleBehaviours(env) ==
    IF env THEN ServiceBehaviours
    ELSE {b \in ServiceBehaviours : b.kind = "exception"}

\* get_chat_completion with the raise of line 50 in place
get_chat_completion_strict(env, behaviour) ==
    IF ~env
    THEN [raised |-> "ValueError", value |-> ""]
    ELSE IF behaviour.kind = "exception"
    THEN [raised |-> "", value |-> "Error accessing Azure OpenAI: " \o behaviour.text]
    ELSE [raised |-> "", value |-> behaviour.text]

\* get_chat_completion: the outcome of the call as main sees it; raised is
\* the exception that leaves the function ("" when it returns)
get_chat_completion(env, behaviour) ==
    IF behaviour.kind = "exception"
    THEN [raised |-> "", value |-> "Error accessing Azure OpenAI: " \o behaviour.text]
    ELSE [raised |-> "", value |-> behaviour.text]

\* apim_openai.get_chat_completion with a ValueError of the try block (the
\* JSONDecodeError of response.json() is one) leaving the function
get_chat_completion_apim_uncaught(env, behaviour) ==
    IF ~env
    THEN [raised |-> "ValueError", value |-> ""]
    ELSE IF behaviour.kind = "exception"
    THEN [raised |-> "ValueError", value |-> ""]
    ELSE [raised |-> "", value |-> behaviour.text]

\* get_chat_completion of apim_openai.py, the variant of the call that goes
\* through the API Management endpoint: it raises ValueError before any
\* request when a required environment variable is missing (lines 24-30),
\* and turns everything the request raises into a returned string
get_chat_completion_apim(env, behaviour) ==
    IF ~env
    THEN [raised |-> "ValueError", value |-> ""]
    ELSE IF behaviour.kind = "exception"
    THEN [raised |-> "", value |-> "Connection error occurred: " \o behaviour.text]
    ELSE [raised |-> "", value |-> behaviour.text]


(***************************************************************************)
(* CatalogDataReader (data/catalog_data_reader.py).  A CSV file is         *)
(* [exists, fieldnames, rows, fail_at]: rows are functions from column     *)
(* names to values, and fail_at = k > 0 says that reading raises when the  *)
(* reader asks for row k (fail_at = 0: the whole file reads).  A value of  *)
(* the catalog dataset is the sequence of the lines of the field (a quoted *)
(* CSV field can hold line breaks), or None where csv.DictReader fills in  *)
(* a row that has fewer fields than the header.                            *)
(***************************************************************************)
None == <<>>

required_columns ==
    <<"Category", "Catalog Item Name", "Catalog Item Short Description",
      "Catalog Item Description">>

Range(f) == {f[x] : x \in DOMAIN f}

\* the rows a csv reader yields before it stops or raises
RowsRead(file) ==
    IF file.fail_at = 0 THEN file.rows
    ELSE SubSeq(file.rows, 1, file.fail_at - 1)

\* read_catalog_csv without the reset of line 30
read_catalog_csv_accumulating(self, file) ==
    IF ~file.exists
    THEN [catalog_items |-> self, ret |-> <<>>, raised |-> ""]
    ELSE IF \E column \in Range(required_columns) : column \notin file.fieldnames
    THEN [catalog_items |-> self, ret |-> <<>>, raised |-> ""]
    ELSE LET read  == RowsRead(file)
             items == [k \in 1..Len(read) |->
                          [category          |-> read[k]["Category"],
                           name              |-> read[k]["Catalog Item Name"],
                           short_description |-> read[k]["Catalog Item Short Description"],
                           description       |-> read[k]["Catalog Item Description"]]]
         IN  IF file.fail_at = 0
             THEN [catalog_items |-> self \o items, ret |-> self \o items, raised |-> ""]
             ELSE [catalog_items |-> self \o items, ret |-> <<>>, raised |-> ""]

\* read_catalog_csv on a reader whose catalog_items is self: catalog_items
\* is self.catalog_items when the call ends (reset at line 30, then
\* appended to in place), ret the returned list, raised the exception that
\* leaves the call
read_catalog_csv(self, file) ==
    IF ~file.exists
    THEN [catalog_items |-> <<>>, ret |-> <<>>, raised |-> ""]
    ELSE IF \E column \in Range(required_columns) : column \notin file.fieldnames
    THEN [catalog_items |-> <<>>, ret |-> <<>>, raised |-> ""]
    ELSE LET read  == RowsRead(file)
             items == [k \in 1..Len(read) |->
                          [category          |-> read[k]["Category"],
                           name              |-> read[k]["Catalog Item Name"],
                           short_description |-> read[k]["Catalog Item Short Description"],
                           description       |-> read[k]["Catalog Item Description"]]]
         IN  IF file.fail_at = 0
             THEN [catalog_items |-> items, ret |-> items, raised |-> ""]
             ELSE [catalog_items |-> items, ret |-> <<>>, raised |-> ""]

\* get_catalog_items (line 69)
get_catalog_items(self) == self

\* str.lower on the lines the catalog values and the category arguments of
\* the model are made of
LowerLine(line) ==
    CASE line = "SAP"     -> "sap"
      [] line = "Finance" -> "finance"
      [] OTHER            -> line

Lower(value) == [k \in DOMAIN value |-> LowerLine(value[k])]

\* get_catalog_items_by_category (line 81): None has no lower(), so the
\* comprehension raises AttributeError when it meets an item whose category
\* is None
get_catalog_items_by_category(self, category) ==
    IF \E k \in DOMAIN self : self[k].category = None
    THEN [ret |-> <<>>, raised |-> "AttributeError"]
    ELSE [ret    |-> SelectSeq(self, LAMBDA item :
                                  Lower(item.category) = Lower(category)),
          raised |-> ""]

(***************************************************************************)
(* prompts.py.  A text is the sequence of its lines.                       *)
(***************************************************************************)
Separator == "-----------------------------"

\* the lines of f"{value}"
Str(value) == IF value = None THEN <<"None">> ELSE value

\* the lines of f"{label}{value}\n"
Labelled(label, value) ==
    <<label \o Head(Str(value))>> \o Tail(Str(value))

FormatItem(item) ==
    Labelled("Category: ", item.category) \o
    Labelled("Subcategory: ", item.name) \o
    Labelled("Brief Description: ", item.short_description) \o
    Labelled("Description: ", item.description) \o
    <<Separator>>

RECURSIVE FormatItems(_)
FormatItems(items) ==
    IF items = <<>> THEN <<>>
    ELSE FormatItem(Head(items)) \o FormatItems(Tail(items))

\* load_catalog_references: reads the catalog into a new reader, renders
\* the items the reader holds
load_catalog_references(file) ==
    LET r == read_catalog_csv(<<>>, file)
    IN  [catalog_items  |-> r.catalog_items,
         formatted_text |-> FormatItems(r.catalog_items),
         raised         |-> r.raised]

query_columns ==
    {"Number", "Brief summary", "Further details", "classification Category"}

\* load_support_queries returning nothing when reading fails, as
\* read_catalog_csv does
load_support_queries_all_or_nothing(file) ==
    IF ~file.exists THEN <<>>
    ELSE LET read == RowsRead(file)
         IN  IF query_columns \subseteq file.fieldnames /\ file.fail_at = 0
             THEN [k \in 1..Len(read) |->
                      [Number            |-> read[k]["Number"],
                       Brief_summary     |-> read[k]["Brief summary"],
                       Further_details   |-> read[k]["Further details"],
                       category          |-> read[k]["classification Category"]]]
             ELSE <<>>

\* load_support_queries: the first row read under a header without one of
\* the named columns raises KeyError, which ends the loop like any other
\* exception
load_support_queries(file) ==
    IF ~file.exists THEN <<>>
    ELSE LET read == RowsRead(file)
         IN  IF query_columns \subseteq file.fieldnames
             THEN [k \in 1..Len(read) |->
                      [Number            |-> read[k]["Number"],
                       Brief_summary     |-> read[k]["Brief summary"],
                       Further_details   |-> read[k]["Further details"],
                       category          |-> read[k]["classification Category"]]]
             ELSE <<>>


(***************************************************************************)
(* Inputs of a run of main: the environment, the two datasets.             *)
(***************************************************************************)
\* the expected labels of the query dataset: any string
ExpectedLabels ==
    {"SAP-SAP new user", "Error accessing Azure OpenAI: Connection error."}

CatalogRow(k) ==
    ("Category" :> <<IF k % 2 = 1 THEN "SAP" ELSE "sap">>) @@
    ("Catalog Item Name" :> <<"SAP new user">>) @@
    ("Catalog Item Short Description" :> <<"item " \o ToString(k)>>) @@
    ("Catalog Item Description" :> <<"Request a new SAP user">>)

Restrict(row, cols) == [c \in (DOMAIN row) \cap cols |-> row[c]]

\* the catalog datasets of main: missing, or n rows under a header with or
\* without the Category column, read whole or failing at some row
CatalogFiles ==
    {[exists |-> FALSE, fieldnames |-> {}, rows |-> <<>>, fail_at |-> 0]} \cup
    UNION {
      {[exists     |-> TRUE,
        fieldnames |-> cols,
        rows       |-> [k \in 1..n |-> Restrict(CatalogRow(k), cols)],
        fail_at    |-> f] :
          cols \in {Range(required_columns), Range(required_columns) \ {"Category"}},
          f \in {0, n}} :
      n \in 0..MaxCatalogRows}

\* a row whose description holds a line of dashes between two paragraphs
SeparatorRow ==
    ("Category" :> <<"sap">>) @@
    ("Catalog Item Name" :> <<"SAP password reset">>) @@
    ("Catalog Item Short Description" :> <<"item 2">>) @@
    ("Catalog Item Description" :> <<"Reset a password", Separator, "Ask your manager first">>)

\* a row with fewer fields than the header, under a header that has the
\* Category column last
ShortRow ==
    ("Category" :> None) @@
    ("Catalog Item Name" :> <<"Orphan">>) @@
    ("Catalog Item Short Description" :> None) @@
    ("Catalog Item Description" :> None)

ClientRows == {CatalogRow(1), SeparatorRow, ShortRow}

\* the catalog datasets a direct caller of the catalog API reads
ClientCatalogFiles ==
    {[exists |-> FALSE, fieldnames |-> {}, rows |-> <<>>, fail_at |-> 0]} \cup
    UNION {
      {[exists     |-> TRUE,
        fieldnames |-> cols,
        rows       |-> [k \in 1..n |-> Restrict(rows[k], cols)],
        fail_at    |-> f] :
          rows \in [1..n -> ClientRows],
          cols \in {Range(required_columns), Range(required_columns) \ {"Category"}},
          f \in {0, n}} :
      n \in 0..MaxCatalogRows}

\* the categories a direct caller asks for
Categories == {<<"SAP">>, <<"Finance">>}

QueryRow(k, label) ==
    ("Number" :> ToString(k)) @@
    ("Brief summary" :> ("need SAP access #" \o ToString(k))) @@
    ("Further details" :> "") @@
    ("classification Category" :> label)

\* the query datasets of main: missing, or n rows with any expected
\* labels, under a header with or without the label column, read whole or
\* failing at some row
QueryFiles ==
    {[exists |-> FALSE, fieldnames |-> {}, rows |-> <<>>, fail_at |-> 0]} \cup
    UNION {
      {[exists     |-> TRUE,
        fieldnames |-> cols,
        rows       |-> [k \in 1..n |-> Restrict(QueryRow(k, labels[k]), cols)],
        fail_at    |-> f] :
          labels \in [1..n -> ExpectedLabels],
          cols \in {query_columns, query_columns \ {"classification Category"}},
          f \in 0..n} :
      n \in 0..MaxQueries}

(***************************************************************************)
(* State.                                                                  *)
(***************************************************************************)
VARIABLES
    pc,                 \* where main is; "stats_client" when QueryStats is
                        \* driven directly by a caller instead of by main
    env,                \* the required environment variables are all set
    catalog_file,       \* data/catalog_reference.csv
    queries_file,       \* data/support_queries.csv
    catalog_items,      \* reader.catalog_items of load_catalog_references
    catalog_references, \* main's catalog_references
    support_queries,    \* main's support_queries
    query_stats,        \* the QueryStats object
    results_store,      \* the ResultsStore object: the sequence of results
    i,                  \* the loop counter of main
    response,           \* main's response
    is_correct,         \* main's is_correct
    service_calls,      \* history: the prompts sent to the service and
                        \* what happened inside each call
    increments,         \* history: calls of increment_pass / increment_fail
    reports,            \* history: reports printed
    client_call,        \* history: the last call of a direct caller
    client_ret          \* what that call returned

vars == <<pc, env, catalog_file, queries_file, catalog_items,
          catalog_references, support_queries, query_stats, results_store,
          i, response, is_correct, service_calls, increments, reports,
          client_call, client_ret>>

\* main before load_catalog_references (app.py line 14), or a caller that
\* has just constructed QueryStats(T).  Until main constructs its objects
\* (lines 18 and 21) query_stats and results_store hold fresh ones.
Init ==
    /\ catalog_items = <<>>
    /\ catalog_references = <<>>
    /\ support_queries = <<>>
    /\ results_store = <<>>
    /\ i = 0
    /\ response = ""
    /\ is_correct = FALSE
    /\ service_calls = <<>>
    /\ increments = 0
    /\ reports = 0
    /\ client_call = [op |-> "none"]
    /\ client_ret = <<>>
    /\ \/ /\ pc = "load_catalog"
          /\ env \in BOOLEAN
          /\ catalog_file \in CatalogFiles
          /\ queries_file \in QueryFiles
          /\ query_stats = QueryStats(0)
       \/ /\ pc = "stats_client"
          /\ env = TRUE
          /\ catalog_file = [exists |-> FALSE, fieldnames |-> {}, rows |-> <<>>, fail_at |-> 0]
          /\ queries_file = [exists |-> FALSE, fieldnames |-> {}, rows |-> <<>>, fail_at |-> 0]
          /\ \E T \in 0..MaxTotal : query_stats = QueryStats(T)
       \/ /\ pc = "catalog_client"
          /\ env = TRUE
          /\ catalog_file = [exists |-> FALSE, fieldnames |-> {}, rows |-> <<>>, fail_at |-> 0]
          /\ queries_file = [exists |-> FALSE, fieldnames |-> {}, rows |-> <<>>, fail_at |-> 0]
          /\ query_stats = QueryStats(0)

(***************************************************************************)
(* A caller of QueryStats other than main.                                 *)
(***************************************************************************)
ClientIncrementPass ==
    /\ pc = "stats_client"
    /\ increments < query_stats.total_queries + ExtraCalls
    /\ query_stats' = increment_pass(query_stats)
    /\ increments' = increments + 1
    /\ client_call' = [op |-> "increment_pass"]
    /\ client_ret' = <<>>
    /\ UNCHANGED <<pc, env, catalog_file, queries_file, catalog_items,
                   catalog_references, support_queries, results_store, i,
                   response, is_correct, service_calls, reports>>

ClientIncrementFail ==
    /\ pc = "stats_client"
    /\ increments < query_stats.total_queries + ExtraCalls
    /\ query_stats' = increment_fail(query_stats)
    /\ increments' = increments + 1
    /\ client_call' = [op |-> "increment_fail"]
    /\ client_ret' = <<>>
    /\ UNCHANGED <<pc, env, catalog_file, queries_file, catalog_items,
                   catalog_references, support_queries, results_store, i,
                   response, is_correct, service_calls, reports>>

ClientRead ==
    /\ pc = "stats_client"
    /\ \E op \in ReadOperations :
          /\ client_call' = [op |-> op]
          /\ client_ret' = Read(op, query_stats)
    /\ UNCHANGED <<pc, env, catalog_file, queries_file, catalog_items,
                   catalog_references, support_queries, query_stats,
                   results_store, i, response, is_correct, service_calls,
                   increments, reports>>

(***************************************************************************)
(* A caller of the catalog API other than main: it holds one               *)
(* CatalogDataReader (catalog_items is the reader's list, catalog_file the *)
(* dataset it read last) and calls its methods in any order, or calls      *)
(* load_catalog_references, which builds its own reader.                   *)
(***************************************************************************)
ClientReadCatalog ==
    /\ pc = "catalog_client"
    /\ \E file \in ClientCatalogFiles :
          LET r == read_catalog_csv(catalog_items, file)
          IN  /\ catalog_file' = file
              /\ catalog_items' = r.catalog_items
              /\ catalog_references' = <<>>
              /\ client_call' = [op        |-> "read_catalog_csv",
                                 had_items |-> catalog_items # <<>>]
              /\ client_ret' = [ret |-> r.ret, raised |-> r.raised]
    /\ UNCHANGED <<pc, env, queries_file, support_queries, query_stats,
                   results_store, i, response, is_correct, service_calls,
                   increments, reports>>

ClientGetCatalogItems ==
    /\ pc = "catalog_client"
    /\ client_call.op # "none"
    /\ client_call' = [op |-> "get_catalog_items"]
    /\ client_ret' = [ret |-> get_catalog_items(catalog_items), raised |-> ""]
    /\ UNCHANGED <<pc, env, catalog_file, queries_file, catalog_items,
                   catalog_references, support_queries, query_stats,
                   results_store, i, response, is_correct, service_calls,
                   increments, reports>>

ClientGetByCategory ==
    /\ pc = "catalog_client"
    /\ client_call.op # "none"
    /\ \E category \in Categories :
          /\ client_call' = [op       |-> "get_catalog_items_by_category",
                             category |-> category]
          /\ client_ret' = get_catalog_items_by_category(catalog_items, category)
    /\ UNCHANGED <<pc, env, catalog_file, queries_file, catalog_items,
                   catalog_references, support_queries, query_stats,
                   results_store, i, response, is_correct, service_calls,
                   increments, reports>>

ClientLoadCatalogReferences ==
    /\ pc = "catalog_client"
    /\ \E file \in ClientCatalogFiles :
          LET r == load_catalog_references(file)
          IN  /\ catalog_file' = file
              /\ catalog_items' = r.catalog_items
              /\ catalog_references' = r.formatted_text
              /\ client_call' = [op |-> "load_catalog_references"]
              /\ client_ret' = [ret |-> r.formatted_text, raised |-> r.raised]
    /\ UNCHANGED <<pc, env, queries_file, support_queries, query_stats,
                   results_store, i, response, is_correct, service_calls,
                   increments, reports>>

(***************************************************************************)
(* main (app.py).                                                          *)
(***************************************************************************)
\* line 14
LoadCatalogReferences ==
    /\ pc = "load_catalog"
    /\ LET r == load_catalog_references(catalog_file)
       IN  /\ catalog_items' = r.catalog_items
           /\ catalog_references' = r.formatted_text
           /\ pc' = IF r.raised # "" THEN "aborted" ELSE "load_queries"
    /\ UNCHANGED <<env, catalog_file, queries_file, support_queries,
                   query_stats, results_store, i, response, is_correct,
                   service_calls, increments, reports,
                   client_call, client_ret>>

\* lines 17-23
LoadSupportQueries ==
    /\ pc = "load_queries"
    /\ support_queries' = load_support_queries(queries_file)
    /\ query_stats' = QueryStats(Len(support_queries'))
    /\ results_store' = <<>>
    /\ pc' = "loop"
    /\ UNCHANGED <<env, catalog_file, queries_file, catalog_items,
                   catalog_references, i, response, is_correct,
                   service_calls, increments, reports,
                   client_call, client_ret>>

\* line 26 with the loop ending one query early
ForNextSkipsLast ==
    /\ pc = "loop"
    /\ IF i < Len(support_queries) - 1
       THEN i' = i + 1 /\ pc' = "classify"
       ELSE i' = i /\ pc' = "report"
    /\ UNCHANGED <<env, catalog_file, queries_file, catalog_items,
                   catalog_references, support_queries, query_stats,
                   results_store, response, is_correct, service_calls,
                   increments, reports,
                   client_call, client_ret>>

\* line 26: the for statement takes the next query or ends the loop
ForNext ==
    /\ pc = "loop"
    /\ IF i < Len(support_queries)
       THEN i' = i + 1 /\ pc' = "classify"
       ELSE i' = i /\ pc' = "report"
    /\ UNCHANGED <<env, catalog_file, queries_file, catalog_items,
                   catalog_references, support_queries, query_stats,
                   results_store, response, is_correct, service_calls,
                   increments, reports,
                   client_call, client_ret>>

\* line 28
customer_query(query) == query.Brief_summary \o " - " \o query.Further_details

\* lines 35-38: USER_PROMPT.format
formatted_prompt(references, request) ==
    [references |-> references, customer_request |-> request]

\* lines 28-43 with a retry: a failed call is made again
ClassifyWithRetry ==
    /\ pc = "classify"
    /\ \E b \in PossibleBehaviours(env) :
          LET prompt == formatted_prompt(catalog_references,
                                         customer_query(support_queries[i]))
              out    == get_chat_completion(env, b)
          IN  /\ service_calls' = Append(service_calls,
                                          [prompt |-> prompt, behaviour |-> b])
              /\ IF b.kind = "exception" /\ Len(service_calls) < 2 * i
                 THEN response' = response /\ pc' = "classify"
                 ELSE response' = out.value /\ pc' = "store"
    /\ UNCHANGED <<env, catalog_file, queries_file, catalog_items,
                   catalog_references, support_queries, query_stats,
                   results_store, i, is_correct, increments, reports,
                   client_call, client_ret>>

\* lines 28-43; a ValueError of the call is caught at line 64
Classify ==
    /\ pc = "classify"
    /\ \E b \in PossibleBehaviours(env) :
          LET prompt == formatted_prompt(catalog_references,
                                         customer_query(support_queries[i]))
              out    == get_chat_completion(env, b)
          IN  /\ service_calls' = Append(service_calls,
                                          [prompt |-> prompt, behaviour |-> b])
              /\ IF out.raised = ""
                 THEN response' = out.value /\ pc' = "store"
                 ELSE response' = response /\ pc' = "aborted"
    /\ UNCHANGED <<env, catalog_file, queries_file, catalog_items,
                   catalog_references, support_queries, query_stats,
                   results_store, i, is_correct, increments, reports,
                   client_call, client_ret>>

\* lines 28-43 of main with get_chat_completion imported from apim_openai;
\* the ValueError of a missing environment variable is caught at line 64,
\* which ends the run without the report
ClassifyApim ==
    /\ pc = "classify"
    /\ \E b \in ServiceBehaviours :
          LET prompt == formatted_prompt(catalog_references,
                                         customer_query(support_queries[i]))
              out    == get_chat_completion_apim(env, b)
          IN  IF out.raised = ""
              THEN /\ service_calls' = Append(service_calls,
                                               [prompt |-> prompt, behaviour |-> b])
                   /\ response' = out.value
                   /\ pc' = "store"
              ELSE /\ service_calls' = service_calls
                   /\ response' = response
                   /\ pc' = "aborted"
    /\ UNCHANGED <<env, catalog_file, queries_file, catalog_items,
                   catalog_references, support_queries, query_stats,
                   results_store, i, is_correct, increments, reports,
                   client_call, client_ret>>

\* lines 46-51
StoreResult ==
    /\ pc = "store"
    /\ LET query == support_queries[i]
           r     == add_result(results_store, query.Number,
                               customer_query(query), query.category, response)
       IN  /\ results_store' = r.store
           /\ is_correct' = r.ret
    /\ pc' = "record"
    /\ UNCHANGED <<env, catalog_file, queries_file, catalog_items,
                   catalog_references, support_queries, query_stats, i,
                   response, service_calls, increments, reports,
                   client_call, client_ret>>

\* lines 53-58 with the two branches exchanged
record_verdict_swapped(stats, correct) ==
    IF ~correct THEN increment_pass(stats) ELSE increment_fail(stats)

\* lines 53-58 with the fail branch lost
record_verdict_pass_only(stats, correct) ==
    IF ~correct THEN stats ELSE increment_pass(stats)

\* lines 53-58
record_verdict(stats, correct) ==
    IF ~correct THEN increment_fail(stats) ELSE increment_pass(stats)

RecordVerdict ==
    /\ pc = "record"
    /\ query_stats' = record_verdict(query_stats, is_correct)
    /\ increments' = increments + 1
    /\ pc' = "loop"
    /\ UNCHANGED <<env, catalog_file, queries_file, catalog_items,
                   catalog_references, support_queries, results_store, i,
                   response, is_correct, service_calls, reports,
                   client_call, client_ret>>

\* lines 60-62
Report ==
    /\ pc = "report"
    /\ reports' = reports + 1
    /\ pc' = "done"
    /\ UNCHANGED <<env, catalog_file, queries_file, catalog_items,
                   catalog_references, support_queries, query_stats,
                   results_store, i, response, is_correct, service_calls,
                   increments,
                   client_call, client_ret>>

Next ==
    \/ ClientIncrementPass
    \/ ClientIncrementFail
    \/ ClientRead
    \/ ClientReadCatalog
    \/ ClientGetCatalogItems
    \/ ClientGetByCategory
    \/ ClientLoadCatalogReferences
    \/ LoadCatalogReferences
    \/ LoadSupportQueries
    \/ ForNext
    \/ Classify
    \/ StoreResult
    \/ RecordVerdict
    \/ Report

Spec == Init /\ [][Next]_vars

\* main wired to the API Management variant of the classification call
InitApim == Init /\ pc = "load_catalog"

NextApim ==
    \/ LoadCatalogReferences
    \/ LoadSupportQueries
    \/ ForNext
    \/ ClassifyApim
    \/ StoreResult
    \/ RecordVerdict
    \/ Report

SpecApim == InitApim /\ [][NextApim]_vars

TypeOK ==
    /\ pc \in {"stats_client", "catalog_client", "load_catalog", "load_queries", "loop",
               "classify", "store", "record", "report", "done", "aborted"}
    /\ i \in 0..Len(support_queries)
    /\ query_stats.pass_count \in Nat
    /\ query_stats.fail_count \in Nat


(***************************************************************************)
(* Properties.                                                             *)
(***************************************************************************)
\* main has constructed QueryStats and ResultsStore
InRun == pc \in {"loop", "classify", "store", "record", "report", "done", "aborted"}

\* main is between two iterations of the loop, or past the loop
AtBoundary == pc \in {"loop", "report", "done"}

Max0(x) == IF x > 0 THEN x ELSE 0

Count(store, P(_)) == Cardinality({k \in 1..Len(store) : P(store[k])})

IsCorrect(r) == r.correct

IsIncorrect(r) == ~r.correct

\* C1: pass_count + fail_count never exceeds total_queries, whatever
\* increment_pass / increment_fail calls are made on the object.
ProcessedNeverExceedsTotal ==
    query_stats.pass_count + query_stats.fail_count <= query_stats.total_queries

\* C2: after N increment calls on QueryStats(T): while N <= T the two
\* counters add up to N, which get_processed_count returns, and
\* get_remaining_count returns T - N; past T get_remaining_count returns 0.
CountsAndRemaining ==
    LET N == increments
        T == query_stats.total_queries
    IN  /\ N <= T =>
              /\ query_stats.pass_count + query_stats.fail_count = N
              /\ get_processed_count(query_stats) = N
              /\ get_remaining_count(query_stats) = Max0(T - N)
        /\ N > T => get_remaining_count(query_stats) = 0
        /\ get_remaining_count(query_stats) >= 0

CountsAndRemainingReached ==
    /\ pc = "stats_client"
    /\ query_stats.total_queries >= 1
    /\ increments > query_stats.total_queries
    /\ query_stats.pass_count >= 1
    /\ query_stats.fail_count >= 1

\* C3: with total_queries > 0, get_pass_percentage() + get_fail_percentage()
\* equals the completion_percentage of get_stats_summary(), and the
\* summary's processed_queries is pass_count + fail_count.
PercentagesAddUp ==
    query_stats.total_queries > 0 =>
        /\ FAdd(get_pass_percentage(query_stats), get_fail_percentage(query_stats))
               = get_stats_summary(query_stats).completion_percentage
        /\ get_stats_summary(query_stats).processed_queries
               = query_stats.pass_count + query_stats.fail_count

\* C4: with total_queries = 0 the three percentages are 0 whatever the
\* counters are, and a run of main over an empty query list calls the
\* service for nothing, stores nothing and reports an all-zero summary.
EmptyRunIsNoOp ==
    query_stats.total_queries = 0 =>
        /\ get_pass_percentage(query_stats) = FZero
        /\ get_fail_percentage(query_stats) = FZero
        /\ get_stats_summary(query_stats).pass_percentage = FZero
        /\ get_stats_summary(query_stats).fail_percentage = FZero
        /\ get_stats_summary(query_stats).completion_percentage = FZero
        /\ InRun =>
              /\ support_queries = <<>>
              /\ service_calls = <<>>
              /\ results_store = <<>>
              /\ pc \in {"loop", "report", "done"}
              /\ get_stats_summary(query_stats).total_queries = 0
              /\ get_stats_summary(query_stats).processed_queries = 0
              /\ get_stats_summary(query_stats).remaining_queries = 0

EmptyRunReported ==
    /\ pc = "done"
    /\ queries_file.exists
    /\ queries_file.rows = <<>>
    /\ query_stats.total_queries = 0
    /\ reports = 1

\* C5: for each query main records a pass iff the response of the service
\* is the very string of the query's expected category, a fail otherwise,
\* and it makes exactly one of the two increments per query.
PassIffIdentical ==
    /\ [](AtBoundary => query_stats.pass_count + query_stats.fail_count = i)
    /\ [][pc = "record" =>
            LET same == response = support_queries[i].category
            IN  /\ query_stats'.pass_count =
                       query_stats.pass_count + (IF same THEN 1 ELSE 0)
                /\ query_stats'.fail_count =
                       query_stats.fail_count + (IF same THEN 0 ELSE 1)]_vars

PassAndFailRecorded ==
    /\ pc = "loop"
    /\ i = 2
    /\ results_store[1].expected_category = "SAP-SAP new user"
    /\ results_store[1].predicted_category = "SAP-SAP new user"
    /\ results_store[2].expected_category = "SAP-SAP new user"
    /\ results_store[2].predicted_category = "SAP-SAP new user "
    /\ query_stats.pass_count = 1
    /\ query_stats.fail_count = 1

\* C6: between two iterations of main's loop, and after it, the store holds
\* pass_count + fail_count results, pass_count of them correct and
\* fail_count of them incorrect.
StatsAgreeWithStore ==
    AtBoundary =>
        /\ Len(results_store) = query_stats.pass_count + query_stats.fail_count
        /\ Count(results_store, IsCorrect) = query_stats.pass_count
        /\ Count(results_store, IsIncorrect) = query_stats.fail_count

StatsAgreeWithStoreReached ==
    /\ pc = "loop"
    /\ i >= 2
    /\ Count(results_store, IsCorrect) >= 1
    /\ Count(results_store, IsIncorrect) >= 1

\* C7: main calls the service once per query, in dataset order, stores one
\* result per query in that order, and has stored and counted query i - 1
\* when it calls the service for query i.
OneCallPerQueryInOrder ==
    InRun =>
        /\ Len(service_calls) = (IF pc = "classify" THEN i - 1 ELSE i)
        /\ Len(results_store) = (IF pc \in {"classify", "store"} THEN i - 1 ELSE i)
        /\ query_stats.pass_count + query_stats.fail_count
               = (IF pc \in {"classify", "store", "record"} THEN i - 1 ELSE i)
        /\ \A k \in 1..Len(service_calls) :
               service_calls[k].prompt.customer_request
                   = customer_query(support_queries[k])
        /\ \A k \in 1..Len(results_store) :
               /\ results_store[k].query_id = support_queries[k].Number
               /\ results_store[k].input_text = customer_query(support_queries[k])
               /\ results_store[k].expected_category = support_queries[k].category
        /\ pc \in {"report", "done"} => i = Len(support_queries)

AllQueriesClassifiedOnce ==
    /\ pc = "done"
    /\ Len(support_queries) >= 2
    /\ Len(service_calls) = Len(support_queries)
    /\ Len(results_store) = Len(support_queries)

\* C8: a failure inside a classification call does not end the run: the
\* call returns the text describing the error, main stores it as the
\* predicted value, goes on with the next query, and ends with
\* processed == total.
ServiceFailureDoesNotAbort ==
    /\ pc # "aborted"
    /\ pc \notin {"done", "stats_client"} => ENABLED Next
    /\ InRun =>
          \A k \in 1..Len(results_store) :
              service_calls[k].behaviour.kind = "exception" =>
                  results_store[k].predicted_category =
                      "Error accessing Azure OpenAI: " \o service_calls[k].behaviour.text
    /\ pc \in {"report", "done"} =>
          /\ get_processed_count(query_stats) = query_stats.total_queries
          /\ query_stats.total_queries = Len(support_queries)

RunCompletedAfterFailure ==
    /\ pc = "done"
    /\ ~env
    /\ Len(support_queries) >= 2
    /\ service_calls[1].behaviour.kind = "exception"
    /\ get_processed_count(query_stats) = query_stats.total_queries

\* C9: a query whose classification call failed is stored as incorrect and
\* counted as a fail, whatever its expected category label is.
FailedCallNeverPasses ==
    InRun =>
        \A k \in 1..Len(results_store) :
            service_calls[k].behaviour.kind = "exception" =>
                ~results_store[k].correct

\* C10: when the catalog dataset lacks a required column, the run is
\* aborted by the load: no query is classified, stored or counted.
MissingColumnAborts ==
    (/\ catalog_file.exists
     /\ ~(Range(required_columns) \subseteq catalog_file.fieldnames)
     /\ pc \notin {"load_catalog", "stats_client"}) =>
        /\ pc = "aborted"
        /\ service_calls = <<>>
        /\ results_store = <<>>
        /\ increments = 0

WholeCatalog(file) ==
    /\ file.exists
    /\ Range(required_columns) \subseteq file.fieldnames
    /\ file.fail_at = 0

\* items holds one item per row of the file, in order, fields as in the row
CopiesOf(items, file) ==
    /\ Len(items) = Len(file.rows)
    /\ \A k \in 1..Len(items) :
          /\ items[k].category = file.rows[k]["Category"]
          /\ items[k].name = file.rows[k]["Catalog Item Name"]
          /\ items[k].short_description = file.rows[k]["Catalog Item Short Description"]
          /\ items[k].description = file.rows[k]["Catalog Item Description"]

\* the catalog has been loaded (by main, or by the last load of a caller)
CatalogLoaded ==
    \/ pc \in {"load_queries", "loop", "classify", "store", "record",
                "report", "done", "aborted"}
    \/ pc = "catalog_client" /\ client_call.op # "none"

\* C12: a catalog dataset with the four columns that reads to its end gives
\* one item per row, in order, fields copied; read_catalog_csv returns that
\* list and the reader stores exactly it, whatever it stored before
WholeCatalogIsStored ==
    (CatalogLoaded /\ WholeCatalog(catalog_file)) =>
        /\ CopiesOf(get_catalog_items(catalog_items), catalog_file)
        /\ (pc = "catalog_client" /\ client_call.op = "read_catalog_csv") =>
               /\ client_ret.raised = ""
               /\ client_ret.ret = get_catalog_items(catalog_items)

\* a reader that held items has read a dataset of two different rows
SecondLoadStored ==
    /\ pc = "catalog_client"
    /\ client_call.op = "read_catalog_csv"
    /\ client_call.had_items
    /\ WholeCatalog(catalog_file)
    /\ Len(client_ret.ret) = 2
    /\ client_ret.ret[1] # client_ret.ret[2]

\* the load of the catalog dataset failed: no file, or an error while the
\* rows were read
FailedCatalog(file) ==
    \/ ~file.exists
    \/ /\ Range(required_columns) \subseteq file.fieldnames
       /\ file.fail_at > 0

\* C13: a catalog load that fails does not raise and returns the empty
\* list, and the catalogue get_catalog_items() gives and the reference text
\* rendered from it are empty too, whatever was read before the failure
FailedLoadLeavesEmptyCatalog ==
    (CatalogLoaded /\ FailedCatalog(catalog_file)) =>
        /\ get_catalog_items(catalog_items) = <<>>
        /\ catalog_references = <<>>
        /\ (pc = "catalog_client" /\ client_call.op = "read_catalog_csv") =>
               /\ client_ret.raised = ""
               /\ client_ret.ret = <<>>

\* the pieces of a text split at its separator lines
RECURSIVE SplitOnSeparator(_)
SplitOnSeparator(text) ==
    IF \A k \in DOMAIN text : text[k] # Separator
    THEN <<text>>
    ELSE LET k == CHOOSE j \in DOMAIN text :
                      /\ text[j] = Separator
                      /\ \A h \in 1..(j - 1) : text[h] # Separator
         IN  <<SubSeq(text, 1, k - 1)>> \o
             SplitOnSeparator(SubSeq(text, k + 1, Len(text)))

\* the item blocks of a reference text: its pieces, without the empty piece
\* that follows the last separator line
ItemBlocks(text) ==
    LET pieces == SplitOnSeparator(text)
    IN  IF pieces[Len(pieces)] = <<>>
        THEN SubSeq(pieces, 1, Len(pieces) - 1)
        ELSE pieces

\* the reference text has been rendered from the catalogue
ReferencesRendered ==
    \/ pc \in {"load_queries", "loop", "classify", "store", "record",
                "report", "done", "aborted"}
    \/ pc = "catalog_client" /\ client_call.op = "load_catalog_references"

\* C14: the reference text splits at its separator lines into as many item
\* blocks as the catalogue has items, whatever the fields of the items hold
BlocksMatchItems ==
    ReferencesRendered =>
        Len(ItemBlocks(catalog_references)) = Len(catalog_items)

\* the category of the item is the category asked for, but for case
SameCategory(item, category) ==
    /\ item.category # None
    /\ Lower(item.category) = Lower(category)

\* C15: get_catalog_items_by_category(c) raises nothing and returns the
\* items of the catalogue whose category is c but for case, in catalogue
\* order (none when none matches), and the call leaves the catalogue as it
\* was
FilterByCategory ==
    /\ [](  (pc = "catalog_client" /\ client_call.op = "get_catalog_items_by_category")
           => /\ client_ret.raised = ""
              /\ client_ret.ret =
                     SelectSeq(catalog_items,
                               LAMBDA item : SameCategory(item, client_call.category)))
    /\ [][ (pc = "catalog_client" /\ client_call'.op = "get_catalog_items_by_category")
           => catalog_items' = catalog_items ]_vars

\* C16: a run that does not abort prints the final report once, after
\* every query has been stored and counted, so the report shows processed
\* equal to total and nothing remaining; a run that aborts prints none
ReportOnceAfterAllRecorded ==
    /\ reports \in {0, 1}
    /\ InRun => (reports = 1 <=> pc = "done")
    /\ pc = "done" =>
          /\ get_processed_count(query_stats) = query_stats.total_queries
          /\ get_remaining_count(query_stats) = 0
          /\ query_stats.total_queries = Len(support_queries)
          /\ Len(results_store) = Len(support_queries)
    /\ pc = "aborted" => reports = 0

\* a run over two or more queries has printed its report
ReportPrinted ==
    /\ pc = "done"
    /\ reports = 1
    /\ Len(support_queries) >= 2
    /\ Len(results_store) = Len(support_queries)

\* C17: increment_pass adds one to pass_count and increment_fail one to
\* fail_count, each leaving the two other fields as they were; a read
\* operation changes no field, so as long as no increment follows it, the
\* value it returned is the value the operation returns
IncrementsAndReadsFrame ==
    /\ [][ pc = "stats_client" =>
             /\ client_call'.op = "increment_pass" =>
                   /\ query_stats'.pass_count = query_stats.pass_count + 1
                   /\ query_stats'.fail_count = query_stats.fail_count
                   /\ query_stats'.total_queries = query_stats.total_queries
             /\ client_call'.op = "increment_fail" =>
                   /\ query_stats'.fail_count = query_stats.fail_count + 1
                   /\ query_stats'.pass_count = query_stats.pass_count
                   /\ query_stats'.total_queries = query_stats.total_queries
             /\ client_call'.op \in ReadOperations =>
                   query_stats' = query_stats ]_vars
    /\ []( (pc = "stats_client" /\ client_call.op \in ReadOperations)
              => client_ret = Read(client_call.op, query_stats) )

\* both increments have been called and the summary read after them
ReadAfterIncrements ==
    /\ pc = "stats_client"
    /\ client_call.op = "get_stats_summary"
    /\ client_ret.pass_count >= 1
    /\ client_ret.fail_count >= 1

\* the number of rows of the query dataset that are read and turned into
\* queries before the reading fails (all of them when it does not fail)
RowsBeforeFailure(file) ==
    IF ~file.exists THEN 0
    ELSE IF ~(query_columns \subseteq file.fieldnames) THEN 0
    ELSE IF file.fail_at = 0 THEN Len(file.rows)
    ELSE file.fail_at - 1

\* C18: load_support_queries returns to main whatever the dataset: nothing
\* for a missing file, and the queries of the rows before the one where
\* reading failed, in order, otherwise; QueryStats is built with the length
\* of that list, and the run over it ends with processed equal to total
PartialQueriesAreProcessed ==
    InRun =>
        /\ Len(support_queries) = RowsBeforeFailure(queries_file)
        /\ \A k \in 1..Len(support_queries) :
              /\ support_queries[k].Number = queries_file.rows[k]["Number"]
              /\ support_queries[k].Brief_summary = queries_file.rows[k]["Brief summary"]
              /\ support_queries[k].Further_details = queries_file.rows[k]["Further details"]
              /\ support_queries[k].category = queries_file.rows[k]["classification Category"]
        /\ query_stats.total_queries = Len(support_queries)
        /\ pc = "done" =>
              get_processed_count(query_stats) = query_stats.total_queries

\* a run over the rows read before a failure at the third row or later has
\* ended
PartialRunCompleted ==
    /\ pc = "done"
    /\ queries_file.exists
    /\ queries_file.fail_at >= 3
    /\ Len(support_queries) = queries_file.fail_at - 1
    /\ get_processed_count(query_stats) = Len(support_queries)

====
